---- MODULE Spec2Model ----
(***************************************************************************)
(* Model of backend/server.js: the Express handlers of the pipeline        *)
(* manager, the four Mongoose collections they read and write, and the     *)
(* session store.  One action is one database round trip (an await) of a   *)
(* handler together with the synchronous code that follows it, so that     *)
(* the handlers of concurrent requests interleave exactly at their awaits. *)
(*                                                                         *)
(* Time is counted in ticks, TicksPerDay ticks to a day; tick 0 is         *)
(* 2025-06-20T00:00Z.  A document's _id is its position in its collection. *)
(* Payload fields that no handler inspects (a user's name, email and       *)
(* avatar, a pipeline's description, a customer's phone) are left out.     *)
(***************************************************************************)
EXTENDS Integers, Sequences, FiniteSets, TLC

VARIABLES
    now,        \* the clock read by Date.now() and new Date()
    users,      \* User collection
    pipelines,  \* Pipeline collection
    customers,  \* Customer collection
    jobs,       \* Job collection
    session,    \* session store: session id -> userId (NoUser when unset)
    req,        \* the requests being handled: slot -> handler state
    inflight,   \* saves of a rejected Promise.all that are still on their way
    nreq        \* number of requests accepted so far

vars == <<now, users, pipelines, customers, jobs, session, req, inflight, nreq>>
store == <<users, pipelines, customers, jobs>>

----------------------------------------------------------------------------
(* Bounds of the model *)

TicksPerDay == 2
MaxTicks == 1
MaxRequests == 2

Slots == {1, 2}
Sessions == {"s1", "s2"}

----------------------------------------------------------------------------
(* Values *)

\* null / undefined: an unset session user id, a missing body field, a null date
Null == -1
NoUser == Null
NoId == Null
NullDate == Null
\* an ObjectId that names no document
DanglingId == 0
\* new Date(s) of a string that is no date
InvalidDate == -2

StartNow == 10 * TicksPerDay
Week == 7 * TicksPerDay

Range(s) == {s[i] : i \in DOMAIN s}

RECURSIVE SetToSeq(_)
SetToSeq(S) == IF S = {} THEN <<>>
               ELSE LET x == CHOOSE y \in S : \A z \in S : y <= z
                    IN <<x>> \o SetToSeq(S \ {x})

----------------------------------------------------------------------------
(* Schemas (validation runs inside save) *)

\* userSchema: username is required, githubId carries a unique index.
UserSaveOk_NoUniqueIndex(doc) == doc.username # ""

UserSaveOk(doc) ==
    /\ doc.username # ""
    /\ ~ \E i \in DOMAIN users : users[i].githubId = doc.githubId

\* pipelineSchema: name and userId are required.
PipelineValid(doc) == doc.name # "" /\ doc.userId # NoUser

\* customerSchema: name, email and userId are required.
CustomerValid(doc) == doc.name # "" /\ doc.email # "" /\ doc.userId # NoUser

jobSchema_WithPending ==
    [statusEnum |-> {"active", "completed", "paused", "pending"},
     statusDefault |-> "pending",
     progressDefault |-> 0, progressMin |-> 0, progressMax |-> 100]

\* jobSchema: the enum and default of status, the default and range of progress.
jobSchema ==
    [statusEnum |-> {"active", "completed", "paused"},
     statusDefault |-> "active",
     progressDefault |-> 0, progressMin |-> 0, progressMax |-> 100]

\* jobSchema: the required fields, the casts and the validators.
JobValid(doc) ==
    /\ doc.title # ""
    /\ doc.customerId # NoId
    /\ doc.pipelineId # NoId
    /\ doc.currentStep # ""
    /\ doc.status \in jobSchema.statusEnum
    /\ doc.dueDate # InvalidDate
    /\ doc.progress >= jobSchema.progressMin
    /\ doc.progress <= jobSchema.progressMax
    /\ doc.userId # NoUser

----------------------------------------------------------------------------
(* Requests *)

IdleReq ==
    [kind |-> "idle", sess |-> "", uid |-> NoUser, pc |-> "idle",
     body |-> <<>>, code |-> 0, out |-> <<>>, loc |-> <<>>]

NewReq(kind, s, body) ==
    [kind |-> kind, sess |-> s, uid |-> session[s], pc |-> "start",
     body |-> body, code |-> 0, out |-> <<>>, loc |-> <<>>]

Reply(rq, code, out) == [rq EXCEPT !.pc = "done", !.code = code, !.out = out]

\* A request is accepted into the first slot whose handler is not running (it is
\* idle, or its response has been sent).
Free(r) == req[r].pc \in {"idle", "done"}

Accept(r) ==
    /\ Free(r)
    /\ \A k \in Slots : k < r => ~Free(k)
    /\ nreq < MaxRequests
    /\ nreq' = nreq + 1

\* requireAuth: the session carries a user id.
requireAuth_AlwaysNext(s) == TRUE

requireAuth(s) == session[s] # NoUser

----------------------------------------------------------------------------
(* The sample data of createSampleData *)

SeedPipelines ==
    [web |-> [name |-> "Web Development",
              steps |-> <<"Initial Contact", "Requirements", "Design",
                          "Development", "Testing", "Deployment">>],
     mobile |-> [name |-> "Mobile App Development",
                 steps |-> <<"Discovery", "Wireframes", "UI/UX",
                             "Development", "Beta Testing", "App Store">>]]

SeedCustomers ==
    [c1 |-> [name |-> "ABC Corp", email |-> "contact@abccorp.com"],
     c2 |-> [name |-> "Tasty Bites", email |-> "info@tastybites.com"],
     c3 |-> [name |-> "Jane Smith", email |-> "jane@example.com"]]

\* new Date('2025-07-01'), new Date('2025-07-15'), new Date('2025-06-20')
SeedJobs ==
    [j1 |-> [title |-> "E-commerce Website", customer |-> "c1", pipeline |-> "web",
             currentStep |-> "Development", status |-> "active",
             dueDate |-> 11 * TicksPerDay, progress |-> 60],
     j2 |-> [title |-> "Restaurant App", customer |-> "c2", pipeline |-> "mobile",
             currentStep |-> "UI/UX", status |-> "active",
             dueDate |-> 25 * TicksPerDay, progress |-> 30],
     j3 |-> [title |-> "Portfolio Site", customer |-> "c3", pipeline |-> "web",
             currentStep |-> "Testing", status |-> "active",
             dueDate |-> 0 * TicksPerDay, progress |-> 85]]

SeedPhases == <<"pipelines", "customers", "jobs">>

PhaseItems(phase) ==
    CASE phase = "pipelines" -> DOMAIN SeedPipelines
      [] phase = "customers" -> DOMAIN SeedCustomers
      [] phase = "jobs" -> DOMAIN SeedJobs

SeedItems == DOMAIN SeedPipelines \cup DOMAIN SeedCustomers \cup DOMAIN SeedJobs

NoSeedIds == [web |-> NoId, mobile |-> NoId, c1 |-> NoId, c2 |-> NoId, c3 |-> NoId]

SeedKind(item) ==
    IF item \in DOMAIN SeedPipelines THEN "pipeline"
    ELSE IF item \in DOMAIN SeedCustomers THEN "customer" ELSE "job"

\* The document createSampleData builds for item, for user uid at time t, with
\* the _ids of the documents built before it.
SeedDoc(item, uid, t, ids) ==
    CASE SeedKind(item) = "pipeline" ->
           [name |-> SeedPipelines[item].name, steps |-> SeedPipelines[item].steps,
            userId |-> uid, createdAt |-> t]
      [] SeedKind(item) = "customer" ->
           [name |-> SeedCustomers[item].name, email |-> SeedCustomers[item].email,
            userId |-> uid, createdAt |-> t]
      [] SeedKind(item) = "job" ->
           [title |-> SeedJobs[item].title,
            customerId |-> ids[SeedJobs[item].customer],
            pipelineId |-> ids[SeedJobs[item].pipeline],
            currentStep |-> SeedJobs[item].currentStep,
            status |-> SeedJobs[item].status,
            dueDate |-> SeedJobs[item].dueDate,
            progress |-> SeedJobs[item].progress,
            userId |-> uid, createdAt |-> t]

DocValid(kind, doc) ==
    CASE kind = "pipeline" -> PipelineValid(doc)
      [] kind = "customer" -> CustomerValid(doc)
      [] kind = "job" -> JobValid(doc)

\* Model.save() of a valid document: the insert into its collection.
Insert(kind, doc) ==
    /\ pipelines' = IF kind = "pipeline" THEN Append(pipelines, doc) ELSE pipelines
    /\ customers' = IF kind = "customer" THEN Append(customers, doc) ELSE customers
    /\ jobs' = IF kind = "job" THEN Append(jobs, doc) ELSE jobs

NextId(kind) ==
    CASE kind = "pipeline" -> Len(pipelines) + 1
      [] kind = "customer" -> Len(customers) + 1
      [] kind = "job" -> Len(jobs) + 1

----------------------------------------------------------------------------
(* POST /auth/github *)

ValidUsername(username) == username = "desivar"

Usernames == {"desivar", "mallory"}

NewUser == [githubId |-> "desivar-github-id", username |-> "desivar"]

\* What the handler does for a user it has just created, in order:
\* await createSampleData(user._id), then req.session.userId = user._id and
\* res.json.
FirstLoginSteps_SessionFirst == <<"respond", "seed">>

FirstLoginSteps == <<"seed", "respond">>

\* The handler's locals: user, the phase of createSampleData, the saves of its
\* current Promise.all that have not settled, the _ids and the construction
\* time of its documents; created, wrote and failed record what has happened
\* (a user was created, a seeding save succeeded, a seeding save failed).
LoginLoc ==
    [user |-> NoUser, created |-> FALSE, todo |-> <<>>, phase |-> "none",
     pending |-> {}, ids |-> NoSeedIds, t |-> 0, wrote |-> FALSE, failed |-> FALSE]

\* The handler moves on to the steps todo; with none left the request is over.
EnterStep(rq, todo) ==
    IF todo = <<>> THEN [rq EXCEPT !.pc = "done", !.loc.todo = <<>>]
    ELSE IF Head(todo) = "seed"
    THEN [rq EXCEPT !.pc = "seed", !.loc.todo = todo,
                    !.loc.phase = SeedPhases[1],
                    !.loc.pending = PhaseItems(SeedPhases[1]),
                    !.loc.t = now]
    ELSE [rq EXCEPT !.pc = Head(todo), !.loc.todo = todo]

Advance(rq) == EnterStep(rq, Tail(rq.loc.todo))

\* The catch of POST /auth/github: 500.
AuthCatch(rq) == Reply(rq, 500, <<>>)

\* createSampleData without its try/catch: the rejection reaches the handler.
createSampleDataCatch_Rethrow(rq) == AuthCatch([rq EXCEPT !.loc.phase = "returned"])

\* The catch of createSampleData: the error is logged and the function returns.
createSampleDataCatch(rq) == Advance([rq EXCEPT !.loc.phase = "returned"])

\* Lines 104-109: the username check.
StartLogin(r, s, username) ==
    /\ Accept(r)
    /\ LET rq == [NewReq("login", s, [username |-> username]) EXCEPT !.loc = LoginLoc]
       IN req' = [req EXCEPT ![r] =
              IF ~ValidUsername(username) THEN Reply(rq, 401, <<>>)
              ELSE [rq EXCEPT !.pc = "findOne"]]
    /\ UNCHANGED <<now, store, session, inflight>>

\* Line 111: User.findOne({ username }); an existing user goes to line 128.
LoginFindOne(r) ==
    /\ req[r].kind = "login" /\ req[r].pc = "findOne"
    /\ LET rq == req[r]
           found == {i \in DOMAIN users : users[i].username = rq.body.username}
       IN req' = [req EXCEPT ![r] =
              IF found # {}
              THEN EnterStep([rq EXCEPT !.loc.user =
                                 CHOOSE i \in found : \A k \in found : i <= k],
                             <<"respond">>)
              ELSE [rq EXCEPT !.pc = "saveUser"]]
    /\ UNCHANGED <<now, store, session, inflight, nreq>>

\* Lines 115-122: new User(...) and user.save(); ok is whether the store
\* performs the write.
LoginSaveUser(r, ok) ==
    /\ req[r].kind = "login" /\ req[r].pc = "saveUser"
    /\ LET rq == req[r]
       IN IF ok /\ UserSaveOk(NewUser)
          THEN /\ users' = Append(users, NewUser)
               /\ req' = [req EXCEPT ![r] =
                      EnterStep([rq EXCEPT !.loc.user = Len(users) + 1,
                                           !.loc.created = TRUE],
                                FirstLoginSteps)]
          ELSE /\ users' = users
               /\ req' = [req EXCEPT ![r] = AuthCatch(rq)]
    /\ UNCHANGED <<now, pipelines, customers, jobs, session, inflight, nreq>>

\* One save of createSampleData's Promise.all batches (lines 361, 385, 421).
\* A save that fails rejects the Promise.all: createSampleData returns while
\* the other saves of the batch are still on their way.
SeedSave(r, item, ok) ==
    /\ req[r].kind = "login" /\ req[r].pc = "seed"
    /\ item \in req[r].loc.pending
    /\ LET rq == req[r]
           l == rq.loc
           kind == SeedKind(item)
           doc == SeedDoc(item, l.user, l.t, l.ids)
           rest == l.pending \ {item}
           ids2 == IF kind = "job" THEN l.ids
                   ELSE [l.ids EXCEPT ![item] = NextId(kind)]
           saved == [rq EXCEPT !.loc.ids = ids2, !.loc.pending = rest,
                               !.loc.wrote = TRUE]
       IN IF ok /\ DocValid(kind, doc)
          THEN /\ Insert(kind, doc)
               /\ inflight' = inflight
               /\ req' = [req EXCEPT ![r] =
                      IF rest # {} THEN saved
                      ELSE IF l.phase = "pipelines"
                      THEN [saved EXCEPT !.loc.phase = "customers",
                                         !.loc.pending = PhaseItems("customers"),
                                         !.loc.t = now]
                      ELSE IF l.phase = "customers"
                      THEN [saved EXCEPT !.loc.phase = "jobs",
                                         !.loc.pending = PhaseItems("jobs"),
                                         !.loc.t = now]
                      ELSE Advance([saved EXCEPT !.loc.phase = "returned"])]
          ELSE /\ UNCHANGED <<pipelines, customers, jobs>>
               /\ inflight' = inflight \cup
                      {[item |-> o, uid |-> l.user, t |-> l.t, ids |-> l.ids] : o \in rest}
               /\ req' = [req EXCEPT ![r] =
                      createSampleDataCatch([rq EXCEPT !.loc.pending = {},
                                                       !.loc.failed = TRUE])]
    /\ UNCHANGED <<now, users, session, nreq>>

\* A save left on its way by a rejected Promise.all reaches the store, or fails.
OrphanSave(o, ok) ==
    /\ o \in inflight
    /\ inflight' = inflight \ {o}
    /\ LET kind == SeedKind(o.item)
           doc == SeedDoc(o.item, o.uid, o.t, o.ids)
       IN IF ok /\ DocValid(kind, doc) THEN Insert(kind, doc)
          ELSE UNCHANGED <<pipelines, customers, jobs>>
    /\ UNCHANGED <<now, users, session, req, nreq>>

\* Lines 128-138: req.session.userId = user._id and the 200 response.
LoginRespond(r) ==
    /\ req[r].kind = "login" /\ req[r].pc = "respond"
    /\ session' = [session EXCEPT ![req[r].sess] = req[r].loc.user]
    /\ req' = [req EXCEPT ![r] =
           Advance([req[r] EXCEPT !.code = 200, !.out = req[r].loc.user])]
    /\ UNCHANGED <<now, store, inflight, nreq>>

\* POST /auth/logout: req.session.destroy; ok is whether the session store
\* performs it.
Logout(s, ok) ==
    /\ session[s] # NoUser
    /\ session' = IF ok THEN [session EXCEPT ![s] = NoUser] ELSE session
    /\ UNCHANGED <<now, store, req, inflight, nreq>>

Tick ==
    /\ now < StartNow + MaxTicks
    /\ now' = now + 1
    /\ UNCHANGED <<store, session, req, inflight, nreq>>

----------------------------------------------------------------------------
(* Session-required routes *)

ApiKinds == {"getUser", "getStats", "getJobs", "postJob", "getCustomers",
             "postCustomer", "getPipelines", "postPipeline"}

\* Date.prototype.toISOString().split('T')[0]: the calendar day of an instant.
toISODate(t) == t \div TicksPerDay

\* new Date(string): a date-only string is midnight UTC of its day.
ParseDate(d) ==
    CASE d.k = "date" -> d.v * TicksPerDay
      [] d.k = "datetime" -> d.v
      [] d.k = "bad" -> InvalidDate

NoDue == [k |-> "none", v |-> 0]

JobBody(title, c, p, d, g) ==
    [title |-> title, customerId |-> c, pipelineId |-> p, currentStep |-> "Step",
     dueDate |-> d, progress |-> g]

\* The _id of the collection's first document; DanglingId for an empty collection.
FirstId(coll) == IF Len(coll) > 0 THEN 1 ELSE DanglingId

\* The request bodies of POST /api/jobs the model sends: a job without, with
\* a date-only and with a date-and-time due date, one with progress 150, one
\* whose customer and one whose pipeline does not exist, and one without a
\* title and with a due date that is no date.
JobBodies ==
    LET c == FirstId(customers)
        p == FirstId(pipelines)
    IN {JobBody("Job", c, p, NoDue, 150),
        JobBody("Job", c, p, [k |-> "date", v |-> 12], Null),
        JobBody("Job", c, p, [k |-> "datetime", v |-> 12 * TicksPerDay + 1], Null),
        JobBody("Job", DanglingId, p, NoDue, Null),
        JobBody("Job", c, DanglingId, NoDue, Null),
        JobBody("", c, p, [k |-> "bad", v |-> 0], Null)}

CustomerBodies == {[name |-> "Cust", email |-> "c@example.com"],
                   [name |-> "Cust", email |-> ""]}

PipelineBodies == {[name |-> "QA", steps |-> <<"A", "B">>],
                   [name |-> "", steps |-> <<>>]}

Bodies(kind) ==
    CASE kind = "postJob" -> JobBodies
      [] kind = "postCustomer" -> CustomerBodies
      [] kind = "postPipeline" -> PipelineBodies
      [] OTHER -> {<<>>}

\* Lines 228-237: new Job({ title, customerId, pipelineId, currentStep,
\* dueDate: dueDate ? new Date(dueDate) : null, userId }); status, progress
\* and createdAt take the schema's defaults.
NewJob(body, uid) ==
    [title |-> body.title,
     customerId |-> body.customerId,
     pipelineId |-> body.pipelineId,
     currentStep |-> body.currentStep,
     status |-> jobSchema.statusDefault,
     dueDate |-> IF body.dueDate.k = "none" THEN NullDate ELSE ParseDate(body.dueDate),
     progress |-> jobSchema.progressDefault,
     userId |-> uid, createdAt |-> now]

\* Lines 280-287.
NewCustomer(body, uid) ==
    [name |-> body.name, email |-> body.email, userId |-> uid, createdAt |-> now]

\* Lines 327-334.
NewPipeline(body, uid) ==
    [name |-> body.name, steps |-> body.steps, userId |-> uid, createdAt |-> now]

StatsQueries == {"activeJobs", "totalCustomers", "totalPipelines", "jobsDueThisWeek"}

\* The state a handler is in after requireAuth has called next(): everything
\* up to its first await. (n0 is no local of the stats handler: it records how
\* many jobs the user had when the request arrived.)
ApiEnter(rq) ==
    CASE rq.kind = "postJob" ->
           [rq EXCEPT !.pc = "save", !.loc = [doc |-> NewJob(rq.body, rq.uid)]]
      [] rq.kind = "postCustomer" ->
           [rq EXCEPT !.pc = "save", !.loc = [doc |-> NewCustomer(rq.body, rq.uid)]]
      [] rq.kind = "postPipeline" ->
           [rq EXCEPT !.pc = "save", !.loc = [doc |-> NewPipeline(rq.body, rq.uid)]]
      [] rq.kind = "getStats" ->
           [rq EXCEPT !.pc = "count",
                      !.loc = [t0 |-> now, res |-> [q \in StatsQueries |-> Null],
                               n0 |-> Cardinality({i \in DOMAIN jobs :
                                                      jobs[i].userId = rq.uid})]]
      [] OTHER -> [rq EXCEPT !.pc = "find"]

\* A request to a session-required route arrives: requireAuth, then the
\* handler up to its first await.
StartApi(r, s, kind, body) ==
    /\ Accept(r)
    /\ LET rq == NewReq(kind, s, body)
       IN req' = [req EXCEPT ![r] =
              IF ~requireAuth(s) THEN Reply(rq, 401, <<>>) ELSE ApiEnter(rq)]
    /\ UNCHANGED <<now, store, session, inflight>>

\* GET /api/user: User.findById; a null user throws at user._id.
GetUser(r) ==
    /\ req[r].kind = "getUser" /\ req[r].pc = "find"
    /\ req' = [req EXCEPT ![r] =
           IF req[r].uid \in DOMAIN users
           THEN Reply(req[r], 200, [id |-> req[r].uid,
                                    githubUsername |-> users[req[r].uid].username])
           ELSE Reply(req[r], 500, <<>>)]
    /\ UNCHANGED <<now, store, session, inflight, nreq>>

\* The save of POST /api/jobs, /api/customers and /api/pipelines: 201 with
\* the new _id, or 500 from the catch.
PostKind(kind) ==
    CASE kind = "postJob" -> "job"
      [] kind = "postCustomer" -> "customer"
      [] kind = "postPipeline" -> "pipeline"

PostSave(r, ok) ==
    /\ req[r].kind \in {"postJob", "postCustomer", "postPipeline"}
    /\ req[r].pc = "save"
    /\ LET kind == PostKind(req[r].kind)
           doc == req[r].loc.doc
       IN IF ok /\ DocValid(kind, doc)
          THEN /\ Insert(kind, doc)
               /\ req' = [req EXCEPT ![r] = Reply(req[r], 201, NextId(kind))]
          ELSE /\ UNCHANGED <<pipelines, customers, jobs>>
               /\ req' = [req EXCEPT ![r] = Reply(req[r], 500, <<>>)]
    /\ UNCHANGED <<now, users, session, inflight, nreq>>

----------------------------------------------------------------------------
(* GET /api/dashboard/stats *)

\* The four countDocuments of the Promise.all, each for session user uid; t0
\* is the instant new Date() and Date.now() returned when the filters were built.
StatsCount_DueOfAnyUser(q, uid, t0) ==
    CASE q = "activeJobs" ->
           Cardinality({i \in DOMAIN jobs :
               jobs[i].userId = uid /\ jobs[i].status = "active"})
      [] q = "totalCustomers" ->
           Cardinality({i \in DOMAIN customers : customers[i].userId = uid})
      [] q = "totalPipelines" ->
           Cardinality({i \in DOMAIN pipelines : pipelines[i].userId = uid})
      [] q = "jobsDueThisWeek" ->
           Cardinality({i \in DOMAIN jobs :
               /\ jobs[i].status = "active"
               /\ jobs[i].dueDate # NullDate
               /\ jobs[i].dueDate >= t0
               /\ jobs[i].dueDate <= t0 + Week})

StatsCount(q, uid, t0) ==
    CASE q = "activeJobs" ->
           Cardinality({i \in DOMAIN jobs :
               jobs[i].userId = uid /\ jobs[i].status = "active"})
      [] q = "totalCustomers" ->
           Cardinality({i \in DOMAIN customers : customers[i].userId = uid})
      [] q = "totalPipelines" ->
           Cardinality({i \in DOMAIN pipelines : pipelines[i].userId = uid})
      [] q = "jobsDueThisWeek" ->
           Cardinality({i \in DOMAIN jobs :
               /\ jobs[i].userId = uid
               /\ jobs[i].status = "active"
               /\ jobs[i].dueDate # NullDate
               /\ jobs[i].dueDate >= t0
               /\ jobs[i].dueDate <= t0 + Week})

\* One of the four count queries reaches the store; with the last one the
\* Promise.all resolves and the response is sent.
StatsQuery(r, q) ==
    /\ req[r].kind = "getStats" /\ req[r].pc = "count"
    /\ q \in StatsQueries /\ req[r].loc.res[q] = Null
    /\ LET rq == req[r]
           res == [rq.loc.res EXCEPT ![q] = StatsCount(q, rq.uid, rq.loc.t0)]
       IN req' = [req EXCEPT ![r] =
              IF \A x \in StatsQueries : res[x] # Null
              THEN Reply([rq EXCEPT !.loc.res = res], 200, res)
              ELSE [rq EXCEPT !.loc.res = res]]
    /\ UNCHANGED <<now, store, session, inflight, nreq>>

----------------------------------------------------------------------------
(* GET /api/jobs *)

\* Job.find({ userId }): the _ids of the user's jobs.
JobFind_AllUsers(uid) == DOMAIN jobs

JobFind(uid) == {i \in DOMAIN jobs : jobs[i].userId = uid}

\* .sort({ createdAt: -1 }); jobs created at the same instant are listed
\* latest insert first.
RECURSIVE SortByCreatedDesc(_)
SortByCreatedDesc(S) ==
    IF S = {} THEN <<>>
    ELSE LET x == CHOOSE y \in S : \A z \in S :
                      \/ jobs[y].createdAt > jobs[z].createdAt
                      \/ jobs[y].createdAt = jobs[z].createdAt /\ y >= z
         IN <<x>> \o SortByCreatedDesc(S \ {x})

\* .populate('customerId', 'name') and .populate('pipelineId', 'name'): null
\* for an _id that names no document.
Populated(i) ==
    /\ jobs[i].customerId \in DOMAIN customers
    /\ jobs[i].pipelineId \in DOMAIN pipelines

\* Lines 209-218.
FormatJob(i) ==
    [id |-> i,
     title |-> jobs[i].title,
     customer |-> customers[jobs[i].customerId].name,
     pipeline |-> pipelines[jobs[i].pipelineId].name,
     currentStep |-> jobs[i].currentStep,
     status |-> jobs[i].status,
     dueDate |-> IF jobs[i].dueDate # NullDate THEN toISODate(jobs[i].dueDate) ELSE Null,
     progress |-> jobs[i].progress]

\* find, populate, sort and map; job.customerId.name of a null reference
\* throws, and the catch answers 500.
GetJobs(r) ==
    /\ req[r].kind = "getJobs" /\ req[r].pc = "find"
    /\ LET found == JobFind(req[r].uid)
           sorted == SortByCreatedDesc(found)
       IN req' = [req EXCEPT ![r] =
              IF \A i \in found : Populated(i)
              THEN Reply(req[r], 200, [k \in DOMAIN sorted |-> FormatJob(sorted[k])])
              ELSE Reply(req[r], 500, <<>>)]
    /\ UNCHANGED <<now, store, session, inflight, nreq>>

----------------------------------------------------------------------------
(* GET /api/customers *)

\* The order of the two awaited countDocuments of one customer.
CustomerQueries_TotalFirst == <<"totalJobs", "activeJobs">>

CustomerQueries == <<"activeJobs", "totalJobs">>

\* Job.countDocuments({ customerId, status: 'active' }) and
\* Job.countDocuments({ customerId }).
CustomerCount(q, cid) ==
    Cardinality({i \in DOMAIN jobs :
        /\ jobs[i].customerId = cid
        /\ q = "activeJobs" => jobs[i].status = "active"})

ListReply(rq, list, res) ==
    Reply(rq, 200, [k \in DOMAIN list |-> res[list[k]]])

\* Customer.find({ userId }).
GetCustomersFind(r) ==
    /\ req[r].kind = "getCustomers" /\ req[r].pc = "find"
    /\ LET rq == req[r]
           list == SetToSeq({i \in DOMAIN customers : customers[i].userId = rq.uid})
           res == [c \in Range(list) |->
                      [id |-> c, name |-> customers[c].name, email |-> customers[c].email,
                       activeJobs |-> Null, totalJobs |-> Null]]
       IN req' = [req EXCEPT ![r] =
              IF list = <<>> THEN ListReply(rq, list, res)
              ELSE [rq EXCEPT !.pc = "count", !.loc = [list |-> list, res |-> res]]]
    /\ UNCHANGED <<now, store, session, inflight, nreq>>

\* The next count query of customer c's callback reaches the store; with the
\* last one of all the Promise.all resolves and the response is sent.
GetCustomersCount(r) ==
    /\ req[r].kind = "getCustomers" /\ req[r].pc = "count"
    /\ \E c \in DOMAIN req[r].loc.res :
       /\ \E k \in DOMAIN CustomerQueries : req[r].loc.res[c][CustomerQueries[k]] = Null
       /\ LET rq == req[r]
              k == CHOOSE n \in DOMAIN CustomerQueries :
                       /\ rq.loc.res[c][CustomerQueries[n]] = Null
                       /\ \A m \in 1..(n - 1) : rq.loc.res[c][CustomerQueries[m]] # Null
              q == CustomerQueries[k]
              res == [rq.loc.res EXCEPT ![c] = [@ EXCEPT ![q] = CustomerCount(q, c)]]
          IN req' = [req EXCEPT ![r] =
                 IF \A x \in DOMAIN res : res[x].activeJobs # Null /\ res[x].totalJobs # Null
                 THEN ListReply(rq, rq.loc.list, res)
                 ELSE [rq EXCEPT !.loc.res = res]]
    /\ UNCHANGED <<now, store, session, inflight, nreq>>

----------------------------------------------------------------------------
(* GET /api/pipelines *)

\* Job.countDocuments({ pipelineId, status: 'active' }).
PipelineCount(pid) ==
    Cardinality({i \in DOMAIN jobs :
        jobs[i].pipelineId = pid /\ jobs[i].status = "active"})

\* Pipeline.find({ userId }).
GetPipelinesFind(r) ==
    /\ req[r].kind = "getPipelines" /\ req[r].pc = "find"
    /\ LET rq == req[r]
           list == SetToSeq({i \in DOMAIN pipelines : pipelines[i].userId = rq.uid})
           res == [p \in Range(list) |->
                      [id |-> p, name |-> pipelines[p].name, steps |-> pipelines[p].steps,
                       jobCount |-> Null,
                       createdAt |-> toISODate(pipelines[p].createdAt)]]
       IN req' = [req EXCEPT ![r] =
              IF list = <<>> THEN ListReply(rq, list, res)
              ELSE [rq EXCEPT !.pc = "count", !.loc = [list |-> list, res |-> res]]]
    /\ UNCHANGED <<now, store, session, inflight, nreq>>

\* The count query of pipeline p's callback reaches the store.
GetPipelinesCount(r) ==
    /\ req[r].kind = "getPipelines" /\ req[r].pc = "count"
    /\ \E p \in DOMAIN req[r].loc.res :
       /\ req[r].loc.res[p].jobCount = Null
       /\ LET rq == req[r]
              res == [rq.loc.res EXCEPT ![p] = [@ EXCEPT !.jobCount = PipelineCount(p)]]
          IN req' = [req EXCEPT ![r] =
                 IF \A x \in DOMAIN res : res[x].jobCount # Null
                 THEN ListReply(rq, rq.loc.list, res)
                 ELSE [rq EXCEPT !.loc.res = res]]
    /\ UNCHANGED <<now, store, session, inflight, nreq>>

----------------------------------------------------------------------------
(* Specification *)

OtherUser == [githubId |-> "other-github-id", username |-> "other"]

\* The database is empty but for one account of an earlier deployment, whose
\* session is still in the session store; nobody is logged in on s1.
Init ==
    /\ now = StartNow
    /\ users = <<OtherUser>>
    /\ pipelines = <<>>
    /\ customers = <<>>
    /\ jobs = <<>>
    /\ session = [s \in Sessions |-> IF s = "s2" THEN 1 ELSE NoUser]
    /\ req = [r \in Slots |-> IdleReq]
    /\ inflight = {}
    /\ nreq = 0

LoginNext ==
    \/ \E r \in Slots, s \in Sessions, u \in Usernames : StartLogin(r, s, u)
    \/ \E r \in Slots : LoginFindOne(r)
    \/ \E r \in Slots, ok \in BOOLEAN : LoginSaveUser(r, ok)
    \/ \E r \in Slots, item \in SeedItems, ok \in BOOLEAN : SeedSave(r, item, ok)
    \/ \E o \in inflight, ok \in BOOLEAN : OrphanSave(o, ok)
    \/ \E r \in Slots : LoginRespond(r)

StartApiOf(kinds) ==
    \E r \in Slots, s \in Sessions, kind \in kinds :
        \E body \in Bodies(kind) : StartApi(r, s, kind, body)

ApiNext ==
    \/ StartApiOf(ApiKinds)
    \/ \E r \in Slots : GetUser(r)
    \/ \E r \in Slots, ok \in BOOLEAN : PostSave(r, ok)
    \/ \E r \in Slots, q \in StatsQueries : StatsQuery(r, q)
    \/ \E r \in Slots : GetJobs(r)
    \/ \E r \in Slots : GetCustomersFind(r)
    \/ \E r \in Slots : GetCustomersCount(r)
    \/ \E r \in Slots : GetPipelinesFind(r)
    \/ \E r \in Slots : GetPipelinesCount(r)

LogoutNext == \E s \in Sessions, ok \in BOOLEAN : Logout(s, ok)

\* The whole server.
Next == LoginNext \/ ApiNext \/ LogoutNext \/ Tick

Spec == Init /\ [][Next]_vars

\* POST /auth/github alone, from the empty database.
AuthNext == LoginNext

SpecAuth == Init /\ [][AuthNext]_vars

\* The store after desivar's first login on s1 has seeded the sample data (a
\* state SpecAuth reaches, see SeededStoreReached).
SeededIds == [web |-> 1, mobile |-> 2, c1 |-> 1, c2 |-> 2, c3 |-> 3]

SeededDocs(items) == [k \in DOMAIN items |-> SeedDoc(items[k], 2, StartNow, SeededIds)]

InitSeeded ==
    /\ now = StartNow
    /\ users = <<OtherUser, NewUser>>
    /\ pipelines = SeededDocs(<<"web", "mobile">>)
    /\ customers = SeededDocs(<<"c1", "c2", "c3">>)
    /\ jobs = SeededDocs(<<"j1", "j2", "j3">>)
    /\ session = [s \in Sessions |-> IF s = "s2" THEN 1 ELSE 2]
    /\ req = [r \in Slots |-> IdleReq]
    /\ inflight = {}
    /\ nreq = 0

\* From the empty database: every session-required route, and logout. Nobody
\* has logged in on s1; the other account's session s2 can log out.
GuardNext == ApiNext \/ LogoutNext

SpecGuard == Init /\ [][GuardNext]_vars

\* From the seeded store: GET and POST /api/jobs.
JobsNext ==
    \/ StartApiOf({"getJobs", "postJob"})
    \/ \E r \in Slots, ok \in BOOLEAN : PostSave(r, ok)
    \/ \E r \in Slots : GetJobs(r)
    \/ Tick

SpecJobs == InitSeeded /\ [][JobsNext]_vars

\* From the seeded store: GET /api/dashboard/stats and POST /api/jobs.
StatsNext ==
    \/ StartApiOf({"getStats", "postJob"})
    \/ \E r \in Slots, ok \in BOOLEAN : PostSave(r, ok)
    \/ \E r \in Slots, q \in StatsQueries : StatsQuery(r, q)
    \/ Tick

SpecStats == InitSeeded /\ [][StatsNext]_vars

\* From the seeded store: GET /api/customers, GET /api/pipelines and
\* POST /api/jobs.
ListsNext ==
    \/ StartApiOf({"getCustomers", "getPipelines", "postJob"})
    \/ \E r \in Slots, ok \in BOOLEAN : PostSave(r, ok)
    \/ \E r \in Slots : GetCustomersFind(r)
    \/ \E r \in Slots : GetCustomersCount(r)
    \/ \E r \in Slots : GetPipelinesFind(r)
    \/ \E r \in Slots : GetPipelinesCount(r)
    \/ Tick

SpecLists == InitSeeded /\ [][ListsNext]_vars

----------------------------------------------------------------------------
(* Properties *)

Done(r, kind) == req[r].kind = kind /\ req[r].pc = "done"

OwnJobs(u) == {i \in DOMAIN jobs : jobs[i].userId = u}

OwnActive(u) == {i \in OwnJobs(u) : jobs[i].status = "active"}

\* The seeded store InitSeeded starts from is a state of SpecAuth.
SeededStoreReached ==
    /\ users = <<OtherUser, NewUser>>
    /\ pipelines = SeededDocs(<<"web", "mobile">>)
    /\ customers = SeededDocs(<<"c1", "c2", "c3">>)
    /\ jobs = SeededDocs(<<"j1", "j2", "j3">>)
    /\ session = [s \in Sessions |-> IF s = "s2" THEN 1 ELSE 2]
    /\ inflight = {}
    /\ now = StartNow

\* C1: every entry of a 200 response of GET /api/jobs is a Job whose userId is
\* the session user of the request; no other user's Job is listed.
C1_JobsListedAreOwn ==
    \A r \in Slots :
        Done(r, "getJobs") /\ req[r].code = 200 =>
            \A k \in DOMAIN req[r].out : jobs[req[r].out[k].id].userId = req[r].uid

\* C1 witness: a non-empty listing was returned while the store holds a Job of
\* another user.
C1_Witness ==
    \E r \in Slots :
        /\ Done(r, "getJobs") /\ req[r].code = 200
        /\ req[r].out # <<>>
        /\ \E i \in DOMAIN jobs : jobs[i].userId # req[r].uid

\* The slot a request arriving in this state is accepted into.
AcceptSlot(r) == Free(r) /\ \A k \in Slots : k < r => ~Free(k)

\* C2: a request to a session-required route that arrives on a session with no
\* user id is answered 401 at once, and the step leaves the store unchanged.
C2_NoSessionRejected ==
    [][\A r \in Slots :
          (/\ nreq' = nreq + 1
           /\ AcceptSlot(r)
           /\ req'[r].kind \in ApiKinds
           /\ session[req'[r].sess] = NoUser)
          => (/\ req'[r].pc = "done"
              /\ req'[r].code = 401
              /\ store' = store)]_vars

\* C2 witness: a POST on s2, which was logged in and has logged out, was
\* answered 401 after the other user had written to the store.
C2_Witness ==
    \E r \in Slots :
        /\ req[r].kind \in {"postJob", "postCustomer", "postPipeline"}
        /\ req[r].sess = "s2" /\ req[r].code = 401
        /\ Len(customers) + Len(pipelines) + Len(jobs) > 0

Desivars == {i \in DOMAIN users : users[i].username = "desivar"}

SeedNames(items) == {items[k].name : k \in DOMAIN items}
SeedTitles == {SeedJobs[k].title : k \in DOMAIN SeedJobs}

SeededPipelines(u) ==
    Cardinality({i \in DOMAIN pipelines :
        pipelines[i].userId = u /\ pipelines[i].name \in SeedNames(SeedPipelines)})
SeededCustomers(u) ==
    Cardinality({i \in DOMAIN customers :
        customers[i].userId = u /\ customers[i].name \in SeedNames(SeedCustomers)})
SeededJobs(u) ==
    Cardinality({i \in DOMAIN jobs :
        jobs[i].userId = u /\ jobs[i].title \in SeedTitles})

LoginsOver == inflight = {} /\ \A r \in Slots : Free(r)

\* C3 as stated: once the logins are over there is at most one User record of
\* the valid username and it owns exactly 2 seeded pipelines, 3 seeded
\* customers and 3 seeded jobs.
C3_Original ==
    LoginsOver =>
        /\ Cardinality(Desivars) <= 1
        /\ \A u \in Desivars :
              SeededPipelines(u) = 2 /\ SeededCustomers(u) = 3 /\ SeededJobs(u) = 3

\* C3 as amended: there is at most one User record of the valid username; the
\* seeded records it owns never exceed 2 pipelines, 3 customers and 3 jobs
\* (no login seeds a second time), and they number exactly 2, 3 and 3 once the
\* login that created the user has finished seeding with no failed write.
C3_SeededOnce ==
    /\ Cardinality(Desivars) <= 1
    /\ \A u \in Desivars :
          SeededPipelines(u) <= 2 /\ SeededCustomers(u) <= 3 /\ SeededJobs(u) <= 3
    /\ \A r \in Slots :
          (/\ req[r].kind = "login" /\ req[r].loc.created
           /\ req[r].loc.phase = "returned" /\ ~req[r].loc.failed)
          => LET u == req[r].loc.user
             IN SeededPipelines(u) = 2 /\ SeededCustomers(u) = 3 /\ SeededJobs(u) = 3

\* C3 witness: a second login found the user the first login had created and
\* seeded, and the seeded records are still exactly 2, 3 and 3.
C3_Witness ==
    /\ LoginsOver
    /\ \E r \in Slots : Done(r, "login") /\ req[r].loc.created /\ req[r].code = 200
    /\ \E r \in Slots : Done(r, "login") /\ ~req[r].loc.created /\ req[r].code = 200
    /\ \A u \in Desivars :
          SeededPipelines(u) = 2 /\ SeededCustomers(u) = 3 /\ SeededJobs(u) = 3

IsPrefix(a, b) == Len(a) <= Len(b) /\ SubSeq(b, 1, Len(a)) = a

\* C5: a login that created the user and had a seeding write fail ends with
\* the session's user id set to that user and a 200 response, and no step
\* removes a record from the store.
C5_SeedFailureNotPropagated ==
    [][/\ \A r \in Slots :
            (/\ req[r].kind = "login" /\ req[r].pc # "done"
             /\ req'[r].kind = "login" /\ req'[r].pc = "done"
             /\ req'[r].loc.failed)
            => (/\ req'[r].code = 200
                /\ session'[req'[r].sess] = req'[r].loc.user)
       /\ IsPrefix(users, users') /\ IsPrefix(pipelines, pipelines')
       /\ IsPrefix(customers, customers') /\ IsPrefix(jobs, jobs')]_vars

\* C5 witness: such a login has ended with 200 and the session set, with
\* records written before the failure in the store.
C5_Witness ==
    \E r \in Slots :
        /\ Done(r, "login") /\ req[r].loc.created /\ req[r].loc.failed
        /\ req[r].code = 200
        /\ session[req[r].sess] = req[r].loc.user
        /\ SeededPipelines(req[r].loc.user) = 2
        /\ SeededCustomers(req[r].loc.user) >= 1

\* C6 as stated: in a login that creates a user, the session's user id has
\* been set by the time the first seeding write is made.
C6_Original ==
    \A r \in Slots :
        req[r].kind = "login" /\ req[r].loc.created /\ req[r].loc.wrote
            => req[r].code = 200

\* C6 as amended: in a login that creates a user, the session's user id is set
\* only after createSampleData has returned.
C6_SessionAfterSeeding ==
    \A r \in Slots :
        req[r].kind = "login" /\ req[r].loc.created /\ req[r].code = 200
            => req[r].loc.phase = "returned"

\* C6 witness: a first login has set the session after seeding wrote records.
C6_Witness ==
    \E r \in Slots :
        /\ req[r].kind = "login" /\ req[r].loc.created /\ req[r].code = 200
        /\ req[r].loc.wrote
        /\ session[req[r].sess] = req[r].loc.user

\* C4 as stated: in every stats response jobsDueThisWeek <= activeJobs.
C4_Original ==
    \A r \in Slots :
        Done(r, "getStats") /\ req[r].code = 200 =>
            req[r].out.jobsDueThisWeek <= req[r].out.activeJobs

\* C4 as amended: activeJobs and jobsDueThisWeek are each at most the number
\* of the session user's active Jobs now in the store; if none of that user's
\* Jobs was inserted since the request arrived, activeJobs is that number and
\* jobsDueThisWeek <= activeJobs.
C4_StatsWithinActive ==
    \A r \in Slots :
        Done(r, "getStats") /\ req[r].code = 200 =>
            LET u == req[r].uid
                o == req[r].out
            IN /\ o.activeJobs <= Cardinality(OwnActive(u))
               /\ o.jobsDueThisWeek <= Cardinality(OwnActive(u))
               /\ Cardinality(OwnJobs(u)) = req[r].loc.n0 =>
                     /\ o.activeJobs = Cardinality(OwnActive(u))
                     /\ o.jobsDueThisWeek <= o.activeJobs

\* C4 witness: a stats response counted a job due this week among several
\* active jobs, with no insert during the request.
C4_Witness ==
    \E r \in Slots :
        /\ Done(r, "getStats") /\ req[r].code = 200
        /\ Cardinality(OwnJobs(req[r].uid)) = req[r].loc.n0
        /\ req[r].out.jobsDueThisWeek >= 1
        /\ req[r].out.jobsDueThisWeek < req[r].out.activeJobs

\* C7: the counts of GET /api/customers and GET /api/pipelines count only Jobs
\* owned by the session user: none exceeds the number of that user's own Jobs
\* (active Jobs) that reference the customer or pipeline.
C7_Original ==
    \A r \in Slots :
        /\ Done(r, "getCustomers") /\ req[r].code = 200 =>
              \A k \in DOMAIN req[r].out :
                  LET e == req[r].out[k]
                  IN /\ e.totalJobs <= Cardinality({i \in OwnJobs(req[r].uid) :
                                                       jobs[i].customerId = e.id})
                     /\ e.activeJobs <= Cardinality({i \in OwnActive(req[r].uid) :
                                                        jobs[i].customerId = e.id})
        /\ Done(r, "getPipelines") /\ req[r].code = 200 =>
              \A k \in DOMAIN req[r].out :
                  LET e == req[r].out[k]
                  IN e.jobCount <= Cardinality({i \in OwnActive(req[r].uid) :
                                                   jobs[i].pipelineId = e.id})

\* C8: GET /api/jobs of a logged-in user answers 200, and each entry carries
\* the names of the Customer and Pipeline its Job references and the calendar
\* day of its due date, or null.
C8_Original ==
    \A r \in Slots :
        Done(r, "getJobs") /\ req[r].code # 401 =>
            /\ req[r].code = 200
            /\ \A k \in DOMAIN req[r].out :
                  LET e == req[r].out[k]
                      j == jobs[e.id]
                  IN /\ j.customerId \in DOMAIN customers
                     /\ j.pipelineId \in DOMAIN pipelines
                     /\ e.customer = customers[j.customerId].name
                     /\ e.pipeline = pipelines[j.pipelineId].name
                     /\ \/ j.dueDate = NullDate /\ e.dueDate = Null
                        \/ /\ j.dueDate # NullDate
                           /\ e.dueDate * TicksPerDay <= j.dueDate
                           /\ j.dueDate < (e.dueDate + 1) * TicksPerDay

\* C9: every stored Job has progress in [0,100] and a status of the enum; a
\* POST /api/jobs carrying progress 150 that answered 201 stored a progress in
\* [0,100]; every progress GET /api/jobs renders is in [0,100].
C9_ProgressAndStatus ==
    /\ \A i \in DOMAIN jobs :
          /\ jobs[i].progress \in 0..100
          /\ jobs[i].status \in {"active", "completed", "paused"}
    /\ \A r \in Slots :
          /\ Done(r, "postJob") /\ req[r].code = 201 /\ req[r].body.progress = 150
                => jobs[req[r].out].progress \in 0..100
          /\ Done(r, "getJobs") /\ req[r].code = 200
                => \A k \in DOMAIN req[r].out : req[r].out[k].progress \in 0..100

\* C9 witness: a POST carrying progress 150 answered 201, and a listing
\* rendered the job it stored.
C9_Witness ==
    \E r, g \in Slots :
        /\ Done(r, "postJob") /\ req[r].code = 201 /\ req[r].body.progress = 150
        /\ Done(g, "getJobs") /\ req[g].code = 200
        /\ \E k \in DOMAIN req[g].out : req[g].out[k].id = req[r].out

\* C10: in every response of GET /api/customers each customer's activeJobs is
\* at most its totalJobs.
C10_ActiveAtMostTotal ==
    \A r \in Slots :
        Done(r, "getCustomers") /\ req[r].code = 200 =>
            \A k \in DOMAIN req[r].out :
                req[r].out[k].activeJobs <= req[r].out[k].totalJobs

\* C10 witness: a Job was inserted between the two count queries of a
\* customer, whose activeJobs is below its totalJobs.
C10_Witness ==
    \E r \in Slots :
        /\ Done(r, "getCustomers") /\ req[r].code = 200
        /\ \E k \in DOMAIN req[r].out :
              req[r].out[k].activeJobs < req[r].out[k].totalJobs

====
